---- MODULE Spec2Model ----
(***************************************************************************)
(* A model of python_mysql.py (Python 2): the condition builder conds,     *)
(* the Select builder and the Connection wrapper around MySQLdb.           *)
(*                                                                         *)
(* SQL text is a sequence of tokens; the positional marker "%s" is always  *)
(* a token of its own, so markers can be counted.  A call that raises      *)
(* is a result record whose raised field names the exception.              *)
(*                                                                         *)
(* conds and Select are old-style classes (class conds:), and conds        *)
(* defines __getattr__.  Python 2 asks an old-style instance for           *)
(* __coerce__ before an infix arithmetic or bitwise operator, for          *)
(* __nonzero__ when it is truth-tested and for __iter__ when it is         *)
(* iterated; none of these is defined, so each lookup runs                 *)
(* conds.__getattr__, which never returns.  The rich comparisons           *)
(* (==, <>, <, <=, >, >=) find their method in the class and do not.       *)
(***************************************************************************)
EXTENDS Integers, Sequences, FiniteSets, TLC

VARIABLES
    module,   \* the name the file is imported under: str(x.__class__) starts with it
    cond,     \* the conds instances: a sequence of records, indexed by identity
    ret,      \* the last call on a conds instance and how it ended
    steps,    \* calls on the conds instances or on the Select still to be made
    sel,      \* the Select instance being configured
    sret,     \* the last call on the Select and how it ended
    sent,     \* what the Select last handed to Connection.query
    db,       \* Connection._db: 0 is None, otherwise the session's identity
    sess,     \* every session MySQLdb.connect can hand out: unused, open or closed
    trace,    \* what the last Connection call did to sessions, in order
    out       \* the last Connection call and how it ended

condVars == <<module, cond, ret, steps>>
selVars  == <<sel, sret, sent>>
connVars == <<db, sess, trace, out>>
vars     == <<module, cond, ret, steps, sel, sret, sent, db, sess, trace, out>>

-----------------------------------------------------------------------------
(* Bounds of the model *)

MaxCmpOps == 2       \* calls on conds instances in one behaviour of SpecCmp
MaxTreeOps == 4      \* calls on conds instances in one behaviour of SpecTree
MaxSub == 2          \* sub-conditions attached to one conds instance

-----------------------------------------------------------------------------
(* Values and exceptions *)

None == 0
NoErr == "none"
NoAlias == "none"
MultipleOp == "OperationalError: Multiple Operate conditions"
NoValue == "OperationalError: Operation with no value"

Ok(v) == [raised |-> NoErr, val |-> v]
Raise(e) == [raised |-> e, val |-> <<>>]

\* A right-hand side: a literal, a conds instance, a literal collection or a Select.
Lit(n) == [k |-> "lit", id |-> n]
CondRef(i) == [k |-> "cond", id |-> i]
CollRef(n) == [k |-> "coll", id |-> n]
SelRef(n) == [k |-> "select", id |-> n]

\* The modules the file can be imported as: its docstring and its class-name
\* tests say "database", the file in the repository is python_mysql.py.
ModuleNames == {"database", "python_mysql"}

\* str(v.__class__) for an old-style class is "<module>.<class>".
ClassName(m, v) ==
    CASE v.k = "cond" -> <<m, "conds">>
      [] v.k = "select" -> <<m, "Select">>
      [] v.k = "coll" -> <<"__builtin__", "list">>
      [] OTHER -> <<"__builtin__", "int">>

\* The literal collections offered to In / Not_In: strings, none, integers.
Colls == << << [t |-> "str", s |-> "x"], [t |-> "str", s |-> "y"] >>,
            << >>,
            << [t |-> "int", s |-> "7"] >> >>

-----------------------------------------------------------------------------
(* conds *)

NewCond(field) ==
    [field_name |-> field, sql |-> <<>>, params |-> <<>>,
     has_value |-> FALSE, sub_conds |-> <<>>]

\* conds.__getattr__: reached for every attribute the instance and class lack.
\* Unbound, it evaluates the undefined global array; bound, it raises.
GetAttr(c, name) ==
    IF ~c.has_value THEN "NameError" ELSE MultipleOp

\* A chain of sub-conditions longer than the number of instances revisits one:
\* the recursion of get_sql / get_params then never ends (RuntimeError).
Fuel(heap) == Len(heap) + 1

RECURSIVE CondGetSql(_, _, _, _)
RECURSIVE SubSql(_, _, _)
SubSql(heap, subs, fuel) ==
    IF subs = <<>> THEN Ok(<<>>)
    ELSE LET one == CondGetSql(heap, subs[1][1], NoAlias, fuel)
         IN IF one.raised # NoErr THEN one
            ELSE LET rest == SubSql(heap, Tail(subs), fuel)
                 IN IF rest.raised # NoErr THEN rest
                    ELSE Ok(<<subs[1][2]>> \o one.val \o rest.val)

\* conds.get_sql(tn): with an alias it calls the builtin compile with one argument.
CondGetSql(heap, i, tn, fuel) ==
    IF fuel = 0 THEN Raise("RuntimeError")
    ELSE LET subs == SubSql(heap, heap[i].sub_conds, fuel - 1)
         IN IF subs.raised # NoErr THEN subs
            ELSE IF tn # NoAlias THEN Raise("TypeError")
            ELSE Ok(heap[i].sql \o <<" ">> \o subs.val)

RECURSIVE CondGetParams(_, _, _)
RECURSIVE SubParams(_, _, _)
SubParams(heap, subs, fuel) ==
    IF subs = <<>> THEN Ok(<<>>)
    ELSE LET one == CondGetParams(heap, subs[1][1], fuel)
         IN IF one.raised # NoErr THEN one
            ELSE LET rest == SubParams(heap, Tail(subs), fuel)
                 IN IF rest.raised # NoErr THEN rest
                    ELSE Ok(one.val \o rest.val)

CondGetParams(heap, i, fuel) ==
    IF fuel = 0 THEN Raise("RuntimeError")
    ELSE LET subs == SubParams(heap, heap[i].sub_conds, fuel - 1)
         IN IF subs.raised # NoErr THEN subs
            ELSE Ok(heap[i].params \o subs.val)

get_sql(heap, i) == CondGetSql(heap, i, NoAlias, Fuel(heap))
get_params(heap, i) == CondGetParams(heap, i, Fuel(heap))

\* The outcome of a method on instance c: the exception and the instance after.
Done(c) == [raised |-> NoErr, c |-> c]
Fail(e, c) == [raised |-> e, c |-> c]

\* conds._prepare
PrepareOverwrite(c, sql, value) ==
    Done([c EXCEPT !.sql = sql, !.params = Append(c.params, value),
                   !.has_value = TRUE])

Prepare(c, sql, value) ==
    IF ~c.has_value
    THEN Done([c EXCEPT !.sql = sql, !.params = Append(c.params, value),
                        !.has_value = TRUE])
    ELSE Fail(MultipleOp, c)

\* The backquote character of the SQL text.
BQ == "<bq>"

Quoted(c) == <<BQ, c.field_name, BQ>>

\* The comparisons built on _prepare, with the text each one joins.
PrepareOps == {"-", "+", "<>", " like ", "<=", "<", ">", ">="}
DateOps == {"DL", "DG", "DE"}
DateFormats == {"%%Y"}

DateSign(op) == CASE op = "DL" -> "<=" [] op = "DG" -> ">=" [] OTHER -> "="

\* __sub__, __add__, __ne__, like, __le__, __lt__, __gt__, __ge__
PrepareSql(c, op) == Quoted(c) \o <<op, "%s">>

\* DL, DG, DE
DateSql(c, op, format) ==
    <<"DATE_FORMAT(", BQ, c.field_name, BQ, ",'", format, "')", DateSign(op), "%s">>

\* conds.__eq__
Eq(m, heap, i, value) ==
    LET c == heap[i] IN
    IF c.has_value THEN Fail(MultipleOp, c)
    ELSE IF ClassName(m, value) = <<"database", "conds">>
    THEN LET s == get_sql(heap, value.id)
             p == get_params(heap, value.id)
             c1 == [c EXCEPT !.sql = Quoted(c) \o <<"=">> \o s.val]
         IN IF s.raised # NoErr THEN Fail(s.raised, c)
            ELSE IF p.raised # NoErr THEN Fail(p.raised, c1)
            ELSE IF p.val = <<>> THEN Fail("IndexError", c1)
            ELSE Done([c1 EXCEPT !.params = Append(c.params, p.val[1]),
                                 !.has_value = TRUE])
    ELSE Done([c EXCEPT !.sql = Quoted(c) \o <<"=", "%s">>,
                        !.params = Append(c.params, value),
                        !.has_value = TRUE])

-----------------------------------------------------------------------------
(* Select: rendering *)

TableNames == <<"t", "u">>
TableName(n) == [k |-> "name", id |-> n]

\* Select.__init__
NewSelect(tablename, where) ==
    [tablename |-> tablename, where |-> where, sort_fields |-> <<>>,
     limit |-> <<>>, fields |-> <<>>, groups |-> <<>>, having |-> None]

\* The Select instances used as a nested table or as the right-hand side of
\* In / Not_In: one without a where-condition, one filtered by instance 1.
Selects == << NewSelect(TableName(2), None), NewSelect(TableName(2), 1) >>

\* sep.join(parts), each part a token sequence.
RECURSIVE Join(_, _)
Join(parts, sep) ==
    IF parts = <<>> THEN <<>>
    ELSE IF Len(parts) = 1 THEN parts[1]
    ELSE parts[1] \o <<sep>> \o Join(Tail(parts), sep)

\* A truth test (if x:) on None or on a conds instance: the instance is asked for
\* __nonzero__, which only conds.__getattr__ answers.
Truth(heap, ref) ==
    IF ref = None THEN Ok(FALSE) ELSE Raise(GetAttr(heap[ref], "__nonzero__"))

\* [f.get_sql(tn) for f in self._groups]: a column given as a string has no get_sql.
RECURSIVE GroupSql(_, _, _)
GroupSql(heap, groups, tn) ==
    IF groups = <<>> THEN Ok(<<>>)
    ELSE LET one == IF groups[1].k = "cond"
                    THEN CondGetSql(heap, groups[1].id, tn, Fuel(heap))
                    ELSE Raise("AttributeError")
         IN IF one.raised # NoErr THEN one
            ELSE LET rest == GroupSql(heap, Tail(groups), tn)
                 IN IF rest.raised # NoErr THEN rest
                    ELSE Ok(<<one.val>> \o rest.val)

ColumnList(fields) ==
    IF fields = <<>> THEN <<"*">>
    ELSE Join([n \in 1..Len(fields) |-> <<BQ, fields[n], BQ>>], ",")

\* Select.get_sql, statement by statement; the first failure ends it.
RECURSIVE SelectGetSql(_, _, _)
SelectGetSql(m, heap, s) ==
    LET nested == ClassName(m, s.tablename) = <<"database", "Select">>
        alias == IF nested THEN "t" ELSE NoAlias
        inner == IF nested THEN SelectGetSql(m, heap, Selects[s.tablename.id])
                 ELSE Ok(<<>>)
        table == IF nested THEN <<"(">> \o inner.val \o <<")t">>
                 ELSE IF s.tablename.k = "name" THEN <<TableNames[s.tablename.id]>>
                 ELSE <<"<Select instance>">>
        where == Truth(heap, s.where)
        groups == IF s.groups = <<>> THEN Ok(<<>>) ELSE GroupSql(heap, s.groups, alias)
        having == IF s.groups = <<>> THEN Ok(FALSE) ELSE Truth(heap, s.having)
        grouped == IF s.groups = <<>> THEN <<>>
                   ELSE <<"GROUP BY ">> \o Join(groups.val, ",")
        sorted == IF s.sort_fields = <<>> THEN <<>>
                  ELSE <<"ORDER BY ">> \o Join(s.sort_fields, ",")
        limited == IF s.limit = <<>> THEN <<>> ELSE <<" ">> \o s.limit
    IN IF inner.raised # NoErr THEN inner
       ELSE IF where.raised # NoErr THEN where
       ELSE IF groups.raised # NoErr THEN groups
       ELSE IF having.raised # NoErr THEN having
       \* _add_tb calls the builtin compile with one argument
       ELSE IF s.sort_fields # <<>> /\ nested THEN Raise("TypeError")
       \* "".join of a list that holds the Select instance itself
       ELSE IF s.tablename.k = "select" /\ ~nested THEN Raise("TypeError")
       ELSE Ok(<<"SELECT ">> \o ColumnList(s.fields) \o <<" FROM ", BQ>> \o table
               \o <<BQ>> \o grouped \o sorted \o limited)

-----------------------------------------------------------------------------
(* conds: In, Not_In, AND, OR *)

\* ",".join(["'" + i + "'" for i in array]): an element that is no string raises.
QuotedValues(coll) ==
    IF \E n \in 1..Len(coll) : coll[n].t # "str" THEN Raise("TypeError")
    ELSE Ok(Join([n \in 1..Len(coll) |-> <<"'", coll[n].s, "'">>], ","))

\* conds.In (word = " in (") and conds.Not_In (word = " not in (").  With a
\* Select the fragment is stored and array.get_params() then fails: Select
\* has no such method.  Iterating a Select that the class-name test missed
\* fails before anything is stored.
InWord(c, word, m, heap, array) ==
    IF c.has_value THEN Fail(MultipleOp, c)
    ELSE IF ClassName(m, array) = <<"database", "Select">>
    THEN LET s == SelectGetSql(m, heap, Selects[array.id])
         IN IF s.raised # NoErr THEN Fail(s.raised, c)
            ELSE Fail("AttributeError",
                      [c EXCEPT !.sql = Quoted(c) \o <<word>> \o s.val \o <<")">>])
    ELSE IF array.k = "coll"
    THEN LET v == QuotedValues(Colls[array.id])
         IN IF v.raised # NoErr THEN Fail(v.raised, c)
            ELSE Done([c EXCEPT !.sql = Quoted(c) \o <<word>> \o v.val \o <<")">>,
                                !.has_value = TRUE])
    ELSE Fail("TypeError", c)

\* conds.__and__ (word = " AND ") and conds.__or__ (word = " OR ")
Attach(c, word, other) ==
    IF c.has_value
    THEN Done([c EXCEPT !.sub_conds = Append(c.sub_conds, <<other, word>>)])
    ELSE Fail(NoValue, c)

\* c + v, c - v, c & d, c | d written infix: Python 2 first asks the old-style
\* left operand for __coerce__, which only conds.__getattr__ answers.  Written
\* as a call (c.__and__(d)) the method runs at once.
Forms == {"infix", "call"}
Dispatch(c, form, result) ==
    IF form = "infix" THEN Fail(GetAttr(c, "__coerce__"), c) ELSE result

-----------------------------------------------------------------------------
(* Calls on conds instances *)

NoCall == [op |-> "none", target |-> 0, arg |-> Lit(0), raised |-> NoErr,
           pre |-> NewCond("")]

\* What a call leaves behind: the instance after it, and in ret the call, the
\* instance composed with (AND, OR), the exception raised and the instance as
\* it was before.
Called(op, i, arg, r) ==
    /\ steps > 0
    /\ cond' = [cond EXCEPT ![i] = r.c]
    /\ ret' = [op |-> op, target |-> i, arg |-> arg, raised |-> r.raised,
               pre |-> cond[i]]
    /\ steps' = steps - 1
    /\ UNCHANGED <<module, selVars, connVars>>

\* c <> v, c.like(v), c <= v, c < v, c > v, c >= v
Compare(i, op, value) ==
    Called("cmp", i, Lit(0), Prepare(cond[i], PrepareSql(cond[i], op), value))

\* c + v, c - v
Arith(i, op, value, form) ==
    Called("cmp", i, Lit(0),
           Dispatch(cond[i], form,
                    Prepare(cond[i], PrepareSql(cond[i], op), value)))

\* c.DL(format, v), c.DG(format, v), c.DE(format, v)
DateCompare(i, op, format, value) ==
    Called("cmp", i, Lit(0),
           Prepare(cond[i], DateSql(cond[i], op, format), value))

\* c == v
Equals(i, value) ==
    Called("cmp", i, Lit(0), Eq(module, cond, i, value))

\* c.In(array)
In(i, array) ==
    Called("cmp", i, Lit(0), InWord(cond[i], " in (", module, cond, array))

\* c.Not_In(array)
Not_In(i, array) ==
    Called("cmp", i, Lit(0), InWord(cond[i], " not in (", module, cond, array))

\* c & d
And(i, j, form) ==
    /\ Len(cond[i].sub_conds) < MaxSub
    /\ Called("and", i, CondRef(j),
              Dispatch(cond[i], form, Attach(cond[i], " AND ", j)))

\* c | d
Or(i, j, form) ==
    /\ Len(cond[i].sub_conds) < MaxSub
    /\ Called("or", i, CondRef(j),
              Dispatch(cond[i], form, Attach(cond[i], " OR ", j)))

-----------------------------------------------------------------------------
(* Specifications of the condition builder *)

IdleSelect == NewSelect(TableName(1), None)
IdleSRet == [op |-> "none", raised |-> NoErr, self |-> FALSE, pre |-> IdleSelect,
             args |-> <<>>]
IdleSent == [called |-> FALSE, sql |-> <<>>, params |-> <<>>]
IdleOut == [op |-> "none", raised |-> NoErr, exec |-> "none", rows |-> 0,
            value |-> "-"]

SelectIdle ==
    /\ sel = IdleSelect
    /\ sret = IdleSRet
    /\ sent = IdleSent

ConnectionIdle ==
    /\ db = None
    /\ sess = <<>>
    /\ trace = <<>>
    /\ out = IdleOut

\* The instances conds("a"), conds("b"), ... with nothing applied yet.
Fresh(fields) == [n \in 1..Len(fields) |-> NewCond(fields[n])]

CondsInit(heaps, budget) ==
    /\ module \in ModuleNames
    /\ cond \in heaps
    /\ ret = NoCall
    /\ steps = budget
    /\ SelectIdle
    /\ ConnectionIdle

Ids == DOMAIN cond
Literals == {Lit(1)}
Operands == Literals \cup {CondRef(j) : j \in Ids}
Arrays == {CollRef(n) : n \in DOMAIN Colls} \cup {SelRef(n) : n \in DOMAIN Selects}

\* Two instances, every comparison, every kind of right-hand side.  The
\* second instance starts fresh or already compared with a literal (b == 1),
\* so that a bound instance is there to be nested from the first call on.
InitCmp ==
    LET fresh == Fresh(<<"a", "b">>)
    IN CondsInit({fresh, [fresh EXCEPT ![2] = Eq("database", fresh, 2, Lit(1)).c]},
                 MaxCmpOps)

NextCmp ==
    \/ \E i \in Ids, op \in PrepareOps \ {"+", "-"}, v \in Operands : Compare(i, op, v)
    \/ \E i \in Ids, op \in {"+", "-"}, v \in Operands, f \in Forms : Arith(i, op, v, f)
    \/ \E i \in Ids, op \in DateOps, fmt \in DateFormats, v \in Operands :
          DateCompare(i, op, fmt, v)
    \/ \E i \in Ids, v \in Operands : Equals(i, v)
    \/ \E i \in Ids, a \in Arrays : In(i, a)
    \/ \E i \in Ids, a \in Arrays : Not_In(i, a)
    \/ \E i \in Ids, j \in Ids, f \in Forms : And(i, j, f)
    \/ \E i \in Ids, j \in Ids, f \in Forms : Or(i, j, f)

SpecCmp == InitCmp /\ [][NextCmp]_vars

\* Three instances composed into trees; of the comparisons that share
\* _prepare, one stands for all.
InitTree == CondsInit({Fresh(<<"a", "b", "c">>)}, MaxTreeOps)

NextTree ==
    \/ \E i \in Ids, v \in Operands : Compare(i, "<", v)
    \/ \E i \in Ids, v \in Operands : Equals(i, v)
    \/ \E i \in Ids, a \in Arrays : In(i, a)
    \/ \E i \in Ids, j \in Ids, f \in Forms : And(i, j, f)
    \/ \E i \in Ids, j \in Ids, f \in Forms : Or(i, j, f)

SpecTree == InitTree /\ [][NextTree]_vars

-----------------------------------------------------------------------------
(* Claims about the condition builder *)

\* C1: once a comparison has been applied to an instance, any further
\* comparison on it (every operator, every kind of right-hand side) raises the
\* multiple-operation error and leaves the instance, its fragment and its
\* parameter list as they were.  "Applied" is the has-value flag: every
\* comparison that returns normally leaves it set, and nothing clears it.
C1_SecondComparisonFails ==
    /\ (ret.op = "cmp" /\ ret.raised = NoErr) => cond[ret.target].has_value
    /\ (ret.op # "none" /\ ret.pre.has_value) => cond[ret.target].has_value
    /\ (ret.op = "cmp" /\ ret.pre.has_value) =>
          /\ ret.raised = MultipleOp
          /\ cond[ret.target] = ret.pre

\* A comparison was attempted on an instance that an earlier
\* comparison had bound, with a nested instance's fragment spliced in.
C1_Witness ==
    /\ ret.op = "cmp"
    /\ ret.pre.has_value
    /\ ret.raised = MultipleOp
    /\ ret.pre.sql = <<BQ, "a", BQ, "=", BQ, "b", BQ, "=", "%s", " ">>
    /\ cond[ret.target] = ret.pre

Word(op) == IF op = "and" THEN " AND " ELSE " OR "

\* C2: composing bound A with bound B (A & B, A | B) returns normally, and
\* afterwards A renders as its earlier rendering, the connector, then B's
\* rendering, with the parameter lists concatenated the same way.  Stated for
\* the compositions that close no cycle (B's tree does not lead back to A).
C2_ComposeRendersBoth ==
    (/\ ret.op \in {"and", "or"}
     /\ ret.pre.has_value
     /\ cond[ret.arg.id].has_value
     /\ get_sql([cond EXCEPT ![ret.target] =
                     Attach(ret.pre, Word(ret.op), ret.arg.id).c],
                ret.target).raised = NoErr) =>
        LET before == [cond EXCEPT ![ret.target] = ret.pre]
            a0 == get_sql(before, ret.target)
            p0 == get_params(before, ret.target)
            b == get_sql(cond, ret.arg.id)
            pb == get_params(cond, ret.arg.id)
        IN /\ ret.raised = NoErr
           /\ get_sql(cond, ret.target) = Ok(a0.val \o <<Word(ret.op)>> \o b.val)
           /\ get_params(cond, ret.target) = Ok(p0.val \o pb.val)

RECURSIVE Markers(_)
Markers(sql) ==
    IF sql = <<>> THEN 0
    ELSE (IF Head(sql) = "%s" THEN 1 ELSE 0) + Markers(Tail(sql))

\* C3: a bound instance renders as many %s markers as it has parameters.
C3_MarkersMatchParams ==
    \A i \in Ids :
        (cond[i].has_value /\ get_sql(cond, i).raised = NoErr) =>
            Markers(get_sql(cond, i).val) = Len(get_params(cond, i).val)

-----------------------------------------------------------------------------
(* Select: configuration and invocation *)

MaxNum == 2          \* largest offset and count given to limit
MaxPage == 2         \* largest page number and page size given to the slice
MaxCols == 2         \* columns collected or grouped by on one Select

WrongPage == "OperationalError: Wrong page id,page id can not lower than 1"
WrongSize == "OperationalError: Wrong page size,page size can not lower than 1"
NoField == "OperationalError: Must have a field"

Digits == <<"0", "1", "2", "3", "4", "5", "6", "7", "8", "9">>

\* str(n) for an integer, as its characters.
RECURSIVE Str(_)
Str(n) ==
    IF n < 0 THEN <<"-">> \o Str(-n)
    ELSE IF n < 10 THEN <<Digits[n + 1]>>
    ELSE Str(n \div 10) \o <<Digits[(n % 10) + 1]>>

\* "".join(["LIMIT ", str(start), ",", str(count)])
LimitText(start, count) == <<"LIMIT ">> \o Str(start) \o <<",">> \o Str(count)

\* The outcome of a Select method: the exception, the instance after, and
\* whether the value returned is the instance itself.
SDone(s, self) == [raised |-> NoErr, s |-> s, self |-> self]
SFail(e, s) == [raised |-> e, s |-> s, self |-> FALSE]

\* Select.sort(**fields): fields in the order the keyword dictionary yields them.
sort(s, fields) ==
    SDone([s EXCEPT !.sort_fields =
              [n \in 1..Len(fields) |-> <<BQ, fields[n][1], BQ, " ", fields[n][2]>>]],
          TRUE)

\* Select.limit
limit(s, start, count) ==
    SDone([s EXCEPT !.limit = LimitText(start, count)], TRUE)

\* Select.collect(*fields)
collect(s, fields) ==
    SDone(IF Len(fields) # 0 THEN [s EXCEPT !.fields = s.fields \o fields] ELSE s, TRUE)

\* Select.group_by(*fields): no return statement, so the call yields None.
group_by(s, fields) ==
    IF Len(fields) < 1 THEN SFail(NoField, s)
    ELSE SDone([s EXCEPT !.groups = s.groups \o fields], FALSE)

\* Select.having: no return statement either.
having(s, c) ==
    SDone([s EXCEPT !.having = c], FALSE)

\* Select.__getslice__(pid, pcount)
getslice(s, pid, pcount) ==
    IF pid < 1 THEN SFail(WrongPage, s)
    ELSE IF pcount < 1 THEN SFail(WrongSize, s)
    ELSE SDone([s EXCEPT !.limit = LimitText((pid - 1) * pcount, pcount)], TRUE)

\* select[pid:pcount] written as a slice: Python 2 adds len(select) to a
\* negative bound before it calls __getslice__, and Select has no __len__.
\* Written as a call (select.__getslice__(pid, pcount)) the method runs at once.
Slice(s, form, pid, pcount) ==
    IF form = "infix" /\ (pid < 0 \/ pcount < 0) THEN SFail("AttributeError", s)
    ELSE getslice(s, pid, pcount)

\* The parameter list Select.__call__ builds, or the exception that ends it.
\* The nested table contributes (for p in self._tablename.get_sql()) the
\* pieces of the sub-select's text (one entry per token here, per character
\* in Python).  With a where-condition the call never gets this far: get_sql
\* has already failed on its truth test.
CallParams(m, heap, s) ==
    LET nested == ClassName(m, s.tablename) = <<"database", "Select">>
        inner == IF nested THEN SelectGetSql(m, heap, Selects[s.tablename.id])
                 ELSE Ok(<<>>)
        text == [n \in 1..Len(inner.val) |-> [k |-> "sqltext", id |-> n]]
        where == Truth(heap, s.where)
        hav == Truth(heap, s.having)
    IN IF inner.raised # NoErr THEN inner
       ELSE IF where.raised # NoErr THEN where
       ELSE IF hav.raised # NoErr THEN hav
       ELSE Ok(text)

-----------------------------------------------------------------------------
(* Connection *)

MaxSess == 3         \* sessions MySQLdb.connect hands out in one behaviour
MaxRows == 2         \* rows in a result

OpError == "OperationalError"
ExecOutcomes == {"ok", OpError, "ProgrammingError"}

\* The Connection's session state while a call runs: the handle, every
\* session's status, and the events of the call so far.
Logged(st, e) == [st EXCEPT !.trace = Append(st.trace, e)]
\* value is what the call returns where the model follows it: "-" stands for
\* a value the model does not follow, or for none because the call raised.
Went(st) == [raised |-> NoErr, st |-> st, value |-> "-"]
Threw(e, st) == [raised |-> e, st |-> st, value |-> "-"]

Unused(st) == {n \in DOMAIN st.sess : st.sess[n] = "unused"}
NextSession(st) == CHOOSE n \in Unused(st) : \A k \in Unused(st) : n <= k

\* Connection.close
closeKeepSession(st) ==
    IF st.db # None THEN Logged([st EXCEPT !.db = None], <<"close", st.db>>) ELSE st

close(st) ==
    IF st.db # None
    THEN Logged([st EXCEPT !.sess[st.db] = "closed", !.db = None], <<"close", st.db>>)
    ELSE st

\* Connection.reconnect; connected says whether MySQLdb.connect returns a
\* session.  Once MaxSess sessions have been handed out every connect fails.
reconnect(st, connected) ==
    LET c == close(st) IN
    IF connected /\ Unused(c) # {}
    THEN LET n == NextSession(c)
         IN Went(Logged([c EXCEPT !.sess[n] = "open", !.db = n], <<"connect", n>>))
    ELSE Threw(OpError, Logged(c, <<"connect failed", 0>>))

\* Connection._cursor; first says how a connect made because the handle is
\* None ends, alive how the ping ends, second how the connect after a failed
\* ping ends.
_cursor(st, first, alive, second) ==
    LET a == IF st.db = None THEN reconnect(st, first) ELSE Went(st) IN
    IF a.raised # NoErr THEN a
    ELSE IF alive
    THEN Went(Logged(Logged(a.st, <<"ping", a.st.db>>), <<"cursor", a.st.db>>))
    ELSE LET b == reconnect(Logged(a.st, <<"ping failed", a.st.db>>), second)
         IN IF b.raised # NoErr THEN b
            ELSE Went(Logged(b.st, <<"cursor", b.st.db>>))

\* Connection._execute; result says how cursor.execute ends.
_execute(st, result) ==
    LET tried == Logged(st, <<"send", st.db>>) IN
    IF result = "ok" THEN Went(tried)
    ELSE IF result = OpError THEN Threw(OpError, close(tried))
    ELSE Threw(result, tried)

\* cursor.execute / cursor.executemany called on the cursor itself
CursorExecute(st, result) ==
    LET tried == Logged(st, <<"send", st.db>>) IN
    IF result = "ok" THEN Went(tried) ELSE Threw(result, tried)

\* try: ... finally: cursor.close(), for a cursor made on session n
Finally(r, n) == [r EXCEPT !.st = Logged(r.st, <<"cursor closed", n>>)]

\* Connection.query: rows is the size of the result, all of it read.
query(st, first, alive, second, result, rows) ==
    LET c == _cursor(st, first, alive, second) IN
    IF c.raised # NoErr THEN c
    ELSE LET e == _execute(c.st, result)
         IN Finally(IF e.raised # NoErr THEN e
                    ELSE [Went(Logged(e.st, <<"fetch", rows>>)) EXCEPT !.value = "rows"],
                    c.st.db)

MultipleRows == "Exception: Multiple rows returned for Database.get() query"

\* Connection.get
getFirst(st, first, alive, second, result, rows) ==
    LET q == query(st, first, alive, second, result, rows) IN
    IF q.raised # NoErr THEN q
    ELSE IF rows = 0 THEN [q EXCEPT !.value = "None"]
    ELSE [q EXCEPT !.value = "rows[0]"]

get(st, first, alive, second, result, rows) ==
    LET q == query(st, first, alive, second, result, rows) IN
    IF q.raised # NoErr THEN q
    ELSE IF rows = 0 THEN [q EXCEPT !.value = "None"]
    ELSE IF rows > 1 THEN Threw(MultipleRows, q.st)
    ELSE [q EXCEPT !.value = "rows[0]"]

\* Connection.execute
execute(st, first, alive, second, result) ==
    LET c == _cursor(st, first, alive, second) IN
    IF c.raised # NoErr THEN c
    ELSE Finally(_execute(c.st, result), c.st.db)

\* Connection.count: fetchone() is None when the result is empty.
count(st, first, alive, second, result, rows) ==
    LET c == _cursor(st, first, alive, second) IN
    IF c.raised # NoErr THEN c
    ELSE LET e == CursorExecute(c.st, result)
         IN Finally(IF e.raised # NoErr THEN e
                    ELSE IF rows = 0 THEN Threw("TypeError", Logged(e.st, <<"fetch", 0>>))
                    ELSE Went(Logged(e.st, <<"fetch", 1>>)),
                    c.st.db)

\* Connection.executemany
executemany(st, first, alive, second, result) ==
    LET c == _cursor(st, first, alive, second) IN
    IF c.raised # NoErr THEN c
    ELSE Finally(CursorExecute(c.st, result), c.st.db)

\* Connection.iter, consumed to its end: the generator's body runs from the
\* reconnect to the finally clause.
iter(st, first, result, rows) ==
    LET a == IF st.db = None THEN reconnect(st, first) ELSE Went(st) IN
    IF a.raised # NoErr THEN a
    ELSE LET c == Logged(a.st, <<"cursor", a.st.db>>)
             e == _execute(c, result)
         IN Finally(IF e.raised # NoErr THEN e
                    ELSE Went(Logged(e.st, <<"fetch", rows>>)),
                    c.db)

\* Connection.commit
commit(st, alive, connected, committed, rolledback) ==
    IF st.db = None THEN Went(st)
    ELSE LET a == IF alive THEN Went(Logged(st, <<"ping", st.db>>))
                  ELSE reconnect(Logged(st, <<"ping failed", st.db>>), connected)
         IN IF a.raised # NoErr THEN a
            ELSE IF committed THEN Went(Logged(a.st, <<"commit", a.st.db>>))
            ELSE LET f == Logged(a.st, <<"commit failed", a.st.db>>)
                 IN IF rolledback THEN Went(Logged(f, <<"rollback", f.db>>))
                    ELSE Threw(OpError, Logged(f, <<"rollback failed", f.db>>))

\* Connection.rollback
rollback(st, rolledback) ==
    IF st.db = None THEN Went(st)
    ELSE IF rolledback THEN Went(Logged(st, <<"rollback", st.db>>))
    ELSE Went(Logged(st, <<"rollback failed", st.db>>))

-----------------------------------------------------------------------------
(* Connection: the calls *)

NoSessions == [n \in 1..MaxSess |-> "unused"]

\* The Connection as a call finds it.
Here == [db |-> db, sess |-> sess, trace |-> <<>>]

\* How the statement of the call ended: not sent, run, or failed with an error.
Execution(r) ==
    IF \A k \in DOMAIN r.st.trace : r.st.trace[k][1] # "send" THEN "none"
    ELSE IF \E k \in DOMAIN r.st.trace : r.st.trace[k][1] = "fetch" THEN "ok"
    ELSE IF r.raised = NoErr THEN "ok"
    ELSE r.raised

Settle(op, r, rows) ==
    /\ db' = r.st.db
    /\ sess' = r.st.sess
    /\ trace' = r.st.trace
    /\ out' = [op |-> op, raised |-> r.raised, exec |-> Execution(r), rows |-> rows,
               value |-> r.value]

Returns(op, r, rows) ==
    /\ Settle(op, r, rows)
    /\ UNCHANGED <<condVars, selVars>>

\* Connection.__init__: a failed connect is logged, not raised.
Construct(connected) ==
    LET r == reconnect([db |-> None, sess |-> NoSessions, trace |-> <<>>], connected)
    IN /\ db = r.st.db
       /\ sess = r.st.sess
       /\ trace = r.st.trace
       /\ out = [op |-> "init", raised |-> NoErr, exec |-> "none", rows |-> 0,
                 value |-> "-"]

Close == Returns("close", Went(close(Here)), 0)

Reconnect == \E connected \in BOOLEAN : Returns("reconnect", reconnect(Here, connected), 0)

Commit ==
    \E alive, connected, committed, rolledback \in BOOLEAN :
        Returns("commit", commit(Here, alive, connected, committed, rolledback), 0)

Rollback == \E rolledback \in BOOLEAN : Returns("rollback", rollback(Here, rolledback), 0)

Query ==
    \E first, alive, second \in BOOLEAN, result \in ExecOutcomes, rows \in 0..MaxRows :
        Returns("query", query(Here, first, alive, second, result, rows), rows)

Get ==
    \E first, alive, second \in BOOLEAN, result \in ExecOutcomes, rows \in 0..MaxRows :
        Returns("get", get(Here, first, alive, second, result, rows), rows)

Execute ==
    \E first, alive, second \in BOOLEAN, result \in ExecOutcomes :
        Returns("execute", execute(Here, first, alive, second, result), 0)

Count ==
    \E first, alive, second \in BOOLEAN, result \in ExecOutcomes, rows \in 0..MaxRows :
        Returns("count", count(Here, first, alive, second, result, rows), rows)

ExecuteMany ==
    \E first, alive, second \in BOOLEAN, result \in ExecOutcomes :
        Returns("executemany", executemany(Here, first, alive, second, result), 0)

Iter ==
    \E first \in BOOLEAN, result \in ExecOutcomes, rows \in 0..MaxRows :
        Returns("iter", iter(Here, first, result, rows), rows)

InitConn ==
    /\ module = "python_mysql"
    /\ cond = <<>>
    /\ ret = NoCall
    /\ steps = 0
    /\ SelectIdle
    /\ \E connected \in BOOLEAN : Construct(connected)

NextConn ==
    \/ Close
    \/ Reconnect
    \/ Commit
    \/ Rollback
    \/ Query
    \/ Get
    \/ Execute
    \/ Count
    \/ ExecuteMany
    \/ Iter

SpecConn == InitConn /\ [][NextConn]_vars

-----------------------------------------------------------------------------
(* Connection: properties *)

CursorOps == {"query", "get", "iter", "execute", "executemany", "count"}

Events(kinds) == {k \in DOMAIN trace : trace[k][1] \in kinds}

\* C4: in every call of query, get, iter, execute, executemany or count a
\* ping is attempted before the statement is sent, and after a failed ping the
\* old session is closed and a new one opened before the statement goes out,
\* on that new session.
C4_ProbeBeforeSend ==
    out.op \in CursorOps =>
        \A k \in Events({"send"}) :
            /\ \E j \in Events({"ping", "ping failed"}) : j < k
            /\ \A j \in Events({"ping failed"}) :
                  j < k => \E c \in Events({"connect"}) :
                              /\ j < c /\ c < k
                              /\ trace[c][2] = trace[k][2]
                              /\ trace[c][2] # trace[j][2]

\* Every session that is open is the one the handle refers to.
OneSession ==
    /\ \A n \in DOMAIN sess : sess[n] = "open" => db = n
    /\ db # None => sess[db] = "open"

\* A failed ping at position k is answered by closing that session and
\* opening exactly one other, which every later statement of the call uses.
Replaced(k) ==
    /\ sess[trace[k][2]] = "closed"
    /\ \E c \in Events({"connect"}) :
          /\ c > k
          /\ trace[c][2] # trace[k][2]
          /\ \A d \in Events({"connect"}) : d > k => d = c
          /\ \A e \in Events({"send", "commit", "commit failed"}) :
                e > k => trace[e][2] = trace[c][2]

\* The connect after the failed ping at position k failed as well: the call
\* ends there with the error, and the Connection holds no session.
Disconnected(k) ==
    /\ sess[trace[k][2]] = "closed"
    /\ trace[Len(trace)][1] = "connect failed"
    /\ \A e \in Events({"connect", "send", "commit", "commit failed"}) : e < k
    /\ db = None
    /\ out.raised = OpError

\* C5 as stated: at most one open session, and every reconnect that a failed
\* ping triggers opens exactly one new session with another identity.
C5_ReconnectAlwaysOpens ==
    /\ OneSession
    /\ \A k \in Events({"ping failed"}) : Replaced(k)

\* C5: at most one open session, all others the Connection opened are closed;
\* a reconnect that a failed ping triggers closes the old session and opens
\* exactly one new session with another identity, which the rest of the call
\* uses, unless the connect itself fails: then the call raises and the
\* Connection holds no session.
C5_AtMostOneSession ==
    /\ OneSession
    /\ \A k \in Events({"ping failed"}) : Replaced(k) \/ Disconnected(k)

C5_Witness ==
    /\ out.op = "query"
    /\ out.raised = NoErr
    /\ trace = <<<<"ping failed", 1>>, <<"close", 1>>, <<"connect", 2>>,
                 <<"cursor", 2>>, <<"send", 2>>, <<"fetch", 1>>, <<"cursor closed", 2>>>>
    /\ sess[1] = "closed"
    /\ sess[2] = "open"
    /\ db = 2

\* C6: when the statement of query, get, iter, execute, executemany or count
\* fails with an OperationalError, the handle is None afterwards and the
\* caller gets that error.
C6_TeardownOnOperationalError ==
    (out.op \in CursorOps /\ out.exec = OpError) =>
        /\ db = None
        /\ out.raised = OpError

\* C7: commit returns normally whatever the ping, the reconnect, the commit
\* and the rollback do, and a failed commit is followed by a rollback on the
\* same session.
C7_CommitNeverRaises ==
    out.op = "commit" =>
        /\ out.raised = NoErr
        /\ \A k \in Events({"commit failed"}) :
              /\ k < Len(trace)
              /\ trace[k + 1][1] \in {"rollback", "rollback failed"}
              /\ trace[k + 1][2] = trace[k][2]

-----------------------------------------------------------------------------
(* Select: the calls *)

MaxSelOps == 3       \* calls made on the Select in one behaviour

SortSpecs == { <<>>, << <<"x", "ASC">> >>, << <<"x", "ASC">>, <<"y", "DESC">> >> }
ColumnArgs == { <<>>, <<"x">> }
GroupArgs == { <<>>, <<CondRef(1)>>, <<TableName(1)>> }

\* What a call on the Select leaves behind: the instance after it, and in
\* sret the call, its arguments, the exception, whether the instance itself
\* was returned, and the instance before.
SReturns(op, args, r) ==
    /\ steps > 0
    /\ steps' = steps - 1
    /\ sel' = r.s
    /\ sret' = [op |-> op, raised |-> r.raised, self |-> r.self, pre |-> sel,
                args |-> args]
    /\ UNCHANGED <<module, cond, ret, sent, connVars>>

Sort == \E fields \in SortSpecs : SReturns("sort", <<>>, sort(sel, fields))

Limit ==
    \E start, size \in 0..MaxNum :
        SReturns("limit", <<start, size>>, limit(sel, start, size))

Collect ==
    \E fields \in ColumnArgs :
        /\ Len(sel.fields) + Len(fields) <= MaxCols
        /\ SReturns("collect", <<>>, collect(sel, fields))

GroupBy ==
    \E fields \in GroupArgs :
        /\ Len(sel.groups) + Len(fields) <= MaxCols
        /\ SReturns("group_by", <<Len(fields)>>, group_by(sel, fields))

Having == \E c \in DOMAIN cond : SReturns("having", <<>>, having(sel, c))

GetSlice ==
    \E form \in Forms, pid, pcount \in (-1)..MaxPage :
        SReturns("slice", <<pid, pcount>>, Slice(sel, form, pid, pcount))

\* Select.__call__: get_sql, the parameter list, then self.db.query.
Call ==
    LET text == SelectGetSql(module, cond, sel)
        plist == CallParams(module, cond, sel)
        failed == IF text.raised # NoErr THEN text.raised ELSE plist.raised
    IN /\ steps > 0
       /\ steps' = steps - 1
       /\ UNCHANGED <<module, cond, ret, sel>>
       /\ IF failed # NoErr
          THEN /\ sret' = [op |-> "call", raised |-> failed, self |-> FALSE,
                           pre |-> sel, args |-> <<>>]
               /\ sent' = IdleSent
               /\ UNCHANGED connVars
          ELSE \E first, alive, second \in BOOLEAN, result \in ExecOutcomes,
                  rows \in 0..MaxRows :
                  LET r == query(Here, first, alive, second, result, rows)
                  IN /\ Settle("query", r, rows)
                     /\ sent' = [called |-> TRUE, sql |-> text.val,
                                 params |-> plist.val]
                     /\ sret' = [op |-> "call", raised |-> r.raised, self |-> FALSE,
                                 pre |-> sel, args |-> <<>>]

\* A Select on a table name or on a nested Select, without a where-condition
\* or with instance 1 as its where-condition; the instances a == 1 and b < 1
\* are there to be used as where, group and having arguments.
InitSelect ==
    LET fresh == Fresh(<<"a", "b">>)
        bound == [fresh EXCEPT ![1] = Eq("database", fresh, 1, Lit(1)).c,
                               ![2] = Prepare(fresh[2], PrepareSql(fresh[2], "<"), Lit(1)).c]
    IN /\ module \in ModuleNames
       /\ cond = bound
       /\ ret = NoCall
       /\ steps = MaxSelOps
       /\ sel \in {NewSelect(TableName(1), None), NewSelect(TableName(1), 1),
                   NewSelect(SelRef(1), None)}
       /\ sret = IdleSRet
       /\ sent = IdleSent
       /\ Construct(TRUE)

NextSelect ==
    \/ Sort
    \/ Limit
    \/ Collect
    \/ GroupBy
    \/ Having
    \/ GetSlice
    \/ Call

SpecSelect == InitSelect /\ [][NextSelect]_vars

-----------------------------------------------------------------------------
(* Select: properties *)

\* get_params() of the condition a Select holds, nothing when it holds none.
ParamsOf(ref) == IF ref = None THEN <<>> ELSE get_params(cond, ref).val

NestedParams(s) ==
    IF s.tablename.k = "select" THEN ParamsOf(Selects[s.tablename.id].where) ELSE <<>>

\* C8: calling a Select hands Connection.query the statement and the
\* parameters of the nested Select, of the where-condition and of the
\* having-condition, in that order, whichever of the three are present; the
\* call ends as the query ends.
C8_CallPassesParams ==
    (sret.op = "call" /\ sel.groups = <<>> /\ sel.sort_fields = <<>>) =>
        /\ sent.called
        /\ sent.sql = SelectGetSql(module, cond, sel).val
        /\ sent.params = NestedParams(sel) \o ParamsOf(sel.where) \o ParamsOf(sel.having)
        /\ sret.raised = out.raised

ConfigOps == {"sort", "limit", "collect", "group_by", "having", "slice"}

IsPrefix(a, b) == Len(a) <= Len(b) /\ a = SubSeq(b, 1, Len(a))

\* C9: sort, limit, collect, group_by with a column, having and the page
\* slice return the Select they were called on and change nothing but the
\* modifier they are about; collect and group_by only append.
C9_ConfigReturnsSelf ==
    (sret.op \in ConfigOps /\ sret.raised = NoErr) =>
        /\ sret.self
        /\ CASE sret.op = "sort" -> sel = [sret.pre EXCEPT !.sort_fields = sel.sort_fields]
             [] sret.op \in {"limit", "slice"} -> sel = [sret.pre EXCEPT !.limit = sel.limit]
             [] sret.op = "collect" ->
                   /\ sel = [sret.pre EXCEPT !.fields = sel.fields]
                   /\ IsPrefix(sret.pre.fields, sel.fields)
             [] sret.op = "group_by" ->
                   /\ sel = [sret.pre EXCEPT !.groups = sel.groups]
                   /\ IsPrefix(sret.pre.groups, sel.groups)
             [] sret.op = "having" -> sel = [sret.pre EXCEPT !.having = sel.having]

LimitClauses(text) == Cardinality({k \in DOMAIN text : text[k] = "LIMIT "})

\* C10: the page slice with page p >= 1 and size s >= 1 leaves the LIMIT that
\* limit((p-1)*s, s) leaves; with p < 1 or s < 1 it raises the wrong-page or
\* wrong-size error and keeps the LIMIT as it was; after a limit or a slice
\* the statement carries one LIMIT clause, the stored one.
C10_PageSlice ==
    /\ sret.op = "slice" =>
          LET p == sret.args[1]
              s == sret.args[2]
          IN IF p >= 1 /\ s >= 1
             THEN /\ sret.raised = NoErr
                  /\ sel = limit(sret.pre, (p - 1) * s, s).s
             ELSE /\ sret.raised \in {WrongPage, WrongSize}
                  /\ sel = sret.pre
    /\ (sret.op \in {"limit", "slice"} /\ sel.limit # <<>>) =>
          LET text == SelectGetSql(module, cond, sel)
          IN text.raised = NoErr =>
                /\ LimitClauses(text.val) = 1
                /\ SubSeq(text.val, Len(text.val) - Len(sel.limit) + 1, Len(text.val))
                      = sel.limit

====
